---------------------------- MODULE Spec2Model ----------------------------
(***************************************************************************)
(* Draft Waiver Assistant (src/app.py): name normalisation, the roster     *)
(* extraction that builds the ownership index, the merge of the season     *)
(* stats with the live metrics, and the composite ranking.                 *)
(*                                                                         *)
(* Text is a sequence of one-character strings; a character outside ASCII  *)
(* is written as its code point ("U+00E9").  A JSON value is a tagged      *)
(* record.  A pandas cell that may be NaN is a set with at most one        *)
(* element ({} is NaN).  Scores are exact rationals kept as integers:      *)
(* weights in slider steps of 0.05, normalised metrics over a common       *)
(* denominator.                                                            *)
(***************************************************************************)
EXTENDS Integers, Sequences, FiniteSets, TLC

VARIABLES
    pc,               \* position of the run
    name_a, name_b,   \* two raw names whose keys are joined (lines 70, 177, 210)
    key_a, key_b,     \* normalize_name of each
    key_aa,           \* normalize_name applied to key_a
    payload,          \* decoded transfers-data response (line 47)
    fetched,          \* what fetch_live_league returned (line 172), or raised
    season,           \* rows of the season-stats CSV (line 176)
    fpl_players,      \* rows of the FPL bootstrap elements (line 77)
    df_pool,          \* the pool data frame
    df_avail,         \* the filtered candidates
    df_top,           \* the ranking output
    w,                \* slider weights, in steps of 0.05 (lines 165-168)
    min_avail         \* availability filter selection (line 169)

normvars == <<name_a, name_b, key_a, key_b, key_aa>>
fetchvars == <<payload, fetched>>
poolvars == <<season, fpl_players, df_pool>>
rankvars == <<df_avail, df_top, w, min_avail>>
vars == <<pc, normvars, fetchvars, poolvars, rankvars>>

---------------------------------------------------------------------------
(* Bounds of the checked inputs *)

MaxLen == 3        \* longest raw name drawn exhaustively from NormAlphabet
MaxTeams == 2      \* team nodes in a roster payload
MaxRoster == 2     \* items in one team's roster
MaxStats == 2      \* rows of the season-stats feed
MaxFpl == 2        \* rows of the live-metrics feed
MaxPool == 2       \* candidates in a filtered pool

---------------------------------------------------------------------------
(* Text helpers *)

LowerLetters == <<"a","b","c","d","e","f","g","h","i","j","k","l","m",
                  "n","o","p","q","r","s","t","u","v","w","x","y","z">>
UpperLetters == <<"A","B","C","D","E","F","G","H","I","J","K","L","M",
                  "N","O","P","Q","R","S","T","U","V","W","X","Y","Z">>
LowerSet == {LowerLetters[i] : i \in 1..26}
Whitespace == {" ", "\t", "\n"}
NonAscii == {"U+00E9", "U+00C9", "U+00F3", "U+00ED", "U+0301", "U+00F8", "U+00A0", "U+FB01"}

\* unicodedata.normalize("NFKD", .) of one character
Nfkd(c) ==
    CASE c = "U+00E9" -> <<"e", "U+0301">>
      [] c = "U+00C9" -> <<"E", "U+0301">>
      [] c = "U+00F3" -> <<"o", "U+0301">>
      [] c = "U+00ED" -> <<"i", "U+0301">>
      [] c = "U+FB01" -> <<"f", "i">>
      [] c = "U+00A0" -> <<" ">>
      [] OTHER -> <<c>>

RECURSIVE NfkdAll(_)
NfkdAll(s) == IF s = <<>> THEN <<>> ELSE Nfkd(Head(s)) \o NfkdAll(Tail(s))

\* .encode("ascii", "ignore").decode("ascii")
AsciiIgnore(s) == SelectSeq(s, LAMBDA c : c \notin NonAscii)

LowerChar(c) ==
    IF \E i \in 1..26 : UpperLetters[i] = c
    THEN LowerLetters[CHOOSE i \in 1..26 : UpperLetters[i] = c]
    ELSE c

\* str.lower()
Lower(s) == [i \in 1..Len(s) |-> LowerChar(s[i])]

\* re.sub(r"[^a-z]+", " ", s): every maximal run of characters outside keep
\* becomes one space
RECURSIVE SubNotIn(_, _, _)
SubNotIn(s, keep, inRun) ==
    IF s = <<>> THEN <<>>
    ELSE IF Head(s) \in keep THEN <<Head(s)>> \o SubNotIn(Tail(s), keep, FALSE)
    ELSE IF inRun THEN SubNotIn(Tail(s), keep, TRUE)
    ELSE <<" ">> \o SubNotIn(Tail(s), keep, TRUE)

\* re.sub(r"\s+", " ", s): every maximal run of whitespace becomes one space
RECURSIVE SubSpaces(_, _)
SubSpaces(s, inRun) ==
    IF s = <<>> THEN <<>>
    ELSE IF Head(s) \notin Whitespace THEN <<Head(s)>> \o SubSpaces(Tail(s), FALSE)
    ELSE IF inRun THEN SubSpaces(Tail(s), TRUE)
    ELSE <<" ">> \o SubSpaces(Tail(s), TRUE)

RECURSIVE LStrip(_)
LStrip(s) == IF s # <<>> /\ Head(s) \in Whitespace THEN LStrip(Tail(s)) ELSE s

RECURSIVE RStrip(_)
RStrip(s) ==
    IF s # <<>> /\ s[Len(s)] \in Whitespace THEN RStrip(SubSeq(s, 1, Len(s) - 1)) ELSE s

\* str.strip()
Strip(s) == LStrip(RStrip(s))

\* the regex substitution applied after the strip (a misplaced call)
normalize_name_strip_first(s) ==
    SubSpaces(SubNotIn(Strip(Lower(AsciiIgnore(NfkdAll(s)))), LowerSet, FALSE), FALSE)

\* apostrophes are deleted instead of becoming a space
normalize_name_drop_apostrophe(s) ==
    Strip(SubSpaces(SubNotIn(Lower(AsciiIgnore(NfkdAll(SelectSeq(s, LAMBDA c : c # "'")))),
                             LowerSet, FALSE), FALSE))

\* normalize_name (lines 22-25)
normalize_name(s) ==
    Strip(SubSpaces(SubNotIn(Lower(AsciiIgnore(NfkdAll(s))), LowerSet, FALSE), FALSE))

\* norm (lines 195-196): the merge key keeps punctuation and digits
norm(s) == Strip(SubSpaces(Lower(AsciiIgnore(NfkdAll(s))), FALSE))

---------------------------------------------------------------------------
(* Name normalisation on its own: two raw names, their keys, and the key of *)
(* a key.                                                                   *)

NormAlphabet == {"a", "B", "'", "-", " ", "1", "U+00E9", "U+00F8"}

Texts(alphabet, n) == UNION {[1..k -> alphabet] : k \in 0..n}

Name_OBrien_Smith == <<"O","'","B","r","i","e","n","-","S","m","i","t","h">>
Name_obrien_smith == <<"o","b","r","i","e","n"," ","s","m","i","t","h">>
Name_o_brien_smith == <<"o"," ","b","r","i","e","n"," ","s","m","i","t","h">>
Name_John_Smith == <<"J","o","h","n"," ","S","m","i","t","h">>
Name_John_Smith_accented == <<"J","U+00F3","h","n"," ","S","m","U+00ED","t","h">>

SampleNames ==
    {Name_OBrien_Smith, Name_obrien_smith, Name_o_brien_smith,
     Name_John_Smith, Name_John_Smith_accented}

NormInputs == Texts(NormAlphabet, MaxLen) \cup SampleNames

NoText == <<>>
NoFetch == [status |-> "none"]
NoPayload == [tag |-> "null"]
NoRows == <<>>
NoWeights == [ppg |-> 0, ict |-> 0, fix |-> 0, form |-> 0]

NormIdle ==
    /\ name_a = NoText /\ name_b = NoText
    /\ key_a = NoText /\ key_b = NoText /\ key_aa = NoText

FetchIdle == payload = NoPayload /\ fetched = NoFetch

PoolIdle == season = NoRows /\ fpl_players = NoRows /\ df_pool = NoRows

RankIdle ==
    /\ df_avail = NoRows /\ df_top = NoRows
    /\ w = NoWeights /\ min_avail = "All"

InitNorm ==
    /\ pc = "start"
    /\ name_a \in NormInputs
    /\ name_b \in SampleNames
    /\ key_a = NoText /\ key_b = NoText /\ key_aa = NoText
    /\ FetchIdle /\ PoolIdle /\ RankIdle

\* both sides of the join compute their key (lines 70 and 177)
Normalize ==
    /\ pc = "start"
    /\ key_a' = normalize_name(name_a)
    /\ key_b' = normalize_name(name_b)
    /\ pc' = "keyed"
    /\ UNCHANGED <<name_a, name_b, key_aa, fetchvars, poolvars, rankvars>>

\* a key is normalised again
Renormalize ==
    /\ pc = "keyed"
    /\ key_aa' = normalize_name(key_a)
    /\ pc' = "rekeyed"
    /\ UNCHANGED <<name_a, name_b, key_a, key_b, fetchvars, poolvars, rankvars>>

NextNorm == Normalize \/ Renormalize

SpecNorm == InitNorm /\ [][NextNorm]_vars

\* a join key: lowercase letters in words separated by single spaces
IsKey(k) ==
    /\ \A i \in 1..Len(k) : k[i] \in LowerSet \cup {" "}
    /\ k # <<>> => (k[1] # " " /\ k[Len(k)] # " ")
    /\ \A i \in 1..(Len(k) - 1) : ~(k[i] = " " /\ k[i + 1] = " ")

\* C2 as stated: normalize("O'Brien-Smith") equals normalize("obrien smith")
C2_Original ==
    (pc = "keyed" /\ name_a = Name_OBrien_Smith /\ name_b = Name_obrien_smith)
        => key_a = key_b

\* C2 amended: normalize("O'Brien-Smith") equals normalize("o brien smith"), the
\* key "o brien smith": the apostrophe and the hyphen each become one space
C2_Amended ==
    (pc = "keyed" /\ name_a = Name_OBrien_Smith /\ name_b = Name_o_brien_smith)
        => (key_a = key_b /\ key_a = Name_o_brien_smith)

C2_Witness ==
    /\ pc = "keyed" /\ name_a = Name_OBrien_Smith /\ name_b = Name_o_brien_smith
    /\ key_b = Name_o_brien_smith

\* C9: normalize is total and idempotent: every input yields a key, and
\* normalising a key gives the same key
C9_Idempotent ==
    /\ pc \in {"keyed", "rekeyed"} => IsKey(key_a)
    /\ pc = "rekeyed" => key_aa = key_a

C9_Witness ==
    /\ pc = "rekeyed"
    /\ name_a = <<"U+00E9", "-", "B">>
    /\ key_a = <<"e", " ", "b">>
    /\ key_aa = key_a

---------------------------------------------------------------------------
(* JSON values and Python's duck-typed access to them *)

JNull == [tag |-> "null"]
JStr(s) == [tag |-> "str", val |-> s]
JNum(n) == [tag |-> "num", val |-> n]
JList(xs) == [tag |-> "list", val |-> xs]
JMap(m) == [tag |-> "map", val |-> m]
EmptyMap == JMap(<<>>)

IsMap(v) == v.tag = "map"

\* dict.get(k): None when the key is absent
Get(m, k) == IF k \in DOMAIN m.val THEN m.val[k] ELSE JNull

\* Python truth value
Truthy(v) ==
    CASE v.tag = "null" -> FALSE
      [] v.tag = "str" -> v.val # <<>>
      [] v.tag = "num" -> v.val # 0
      [] v.tag = "list" -> v.val # <<>>
      [] v.tag = "map" -> DOMAIN v.val # {}

DigitChars == <<"0","1","2","3","4","5","6","7","8","9">>

RECURSIVE Digits(_)
Digits(n) ==
    IF n < 10 THEN <<DigitChars[n + 1]>>
    ELSE Digits(n \div 10) \o <<DigitChars[(n % 10) + 1]>>

\* str(v) of a string, a non-negative integer or None
PyStr(v) ==
    CASE v.tag = "str" -> v.val
      [] v.tag = "num" -> Digits(v.val)
      [] v.tag = "null" -> <<"N","o","n","e">>

\* m.get(k1) or m.get(k2) or ... or default
RECURSIVE OrGet(_, _, _)
OrGet(m, keys, default) ==
    IF keys = <<>> THEN default
    ELSE IF Truthy(Get(m, Head(keys))) THEN Get(m, Head(keys))
    ELSE OrGet(m, Tail(keys), default)

\* what "for p in v" iterates over; iterating None or a number raises
\* TypeError; a mapping yields its keys and a string its characters
CanIterate(v) == v.tag \in {"list", "map", "str"}

KeysOf(m) ==
    [i \in 1..Cardinality(DOMAIN m.val) |-> JStr(<<"k">>)]

IterItems(v) ==
    CASE v.tag = "list" -> v.val
      [] v.tag = "str" -> [i \in 1..Len(v.val) |-> JStr(<<v.val[i]>>)]
      [] v.tag = "map" -> KeysOf(v)

\* dict[k] = v
Put(d, k, v) == [x \in (DOMAIN d) \cup {k} |-> IF x = k THEN v ELSE d[x]]

Raised == [status |-> "raised"]

---------------------------------------------------------------------------
(* extract_player_name and fetch_live_league *)

\* the same chain with playerName tried before player.name
NamePaths_reordered ==
    << [nested |-> FALSE, key |-> "name"],
       [nested |-> FALSE, key |-> "playerName"],
       [nested |-> TRUE,  key |-> "player"],
       [nested |-> TRUE,  key |-> "data"],
       [nested |-> TRUE,  key |-> "ws"],
       [nested |-> TRUE,  key |-> "info"] >>

\* the candidate access paths, in the order of the or-chain (lines 35-40)
NamePaths ==
    << [nested |-> FALSE, key |-> "name"],
       [nested |-> TRUE,  key |-> "player"],
       [nested |-> FALSE, key |-> "playerName"],
       [nested |-> TRUE,  key |-> "data"],
       [nested |-> TRUE,  key |-> "ws"],
       [nested |-> TRUE,  key |-> "info"] >>

\* one operand of the chain: p.get(k), or (p.get(k) or {}).get("name"),
\* which raises AttributeError when p.get(k) is truthy and not a mapping
PathValue(p, path) ==
    IF ~path.nested THEN [raised |-> FALSE, val |-> Get(p, path.key)]
    ELSE LET inner == IF Truthy(Get(p, path.key)) THEN Get(p, path.key) ELSE EmptyMap
         IN  IF IsMap(inner) THEN [raised |-> FALSE, val |-> Get(inner, "name")]
             ELSE [raised |-> TRUE, val |-> JNull]

\* a or b or ...: the first truthy operand, else the last one
RECURSIVE OrChain(_, _)
OrChain(p, paths) ==
    LET r == PathValue(p, Head(paths))
    IN  IF r.raised \/ Len(paths) = 1 \/ Truthy(r.val) THEN r
        ELSE OrChain(p, Tail(paths))

\* extract_player_name (lines 33-41); p.get raises when p is not a mapping
extract_player_name(p) ==
    IF ~IsMap(p) THEN [raised |-> TRUE, val |-> JNull]
    ELSE OrChain(p, NamePaths)

\* the inner loop (lines 66-71) over the rest of a roster
RECURSIVE RosterLoop(_, _, _, _)
RosterLoop(acc, items, tid, tname) ==
    IF acc.status = "raised" \/ items = <<>> THEN acc
    ELSE LET r == extract_player_name(Head(items))
             pname == r.val
         IN  IF r.raised THEN Raised
             ELSE IF ~Truthy(pname) THEN RosterLoop(acc, Tail(items), tid, tname)
             ELSE RosterLoop(
                    [acc EXCEPT
                       !.total_names = @ + 1,
                       !.owner_by_name = Put(@, normalize_name(PyStr(pname)), tname),
                       !.players_by_team = Put(@, tid, Append(@[tid], pname))],
                    Tail(items), tid, tname)

\* line 65: players_by_team[tid] = []
StartRoster(players_by_team, tid) == Put(players_by_team, tid, <<>>)

\* lines 55-63: the name, the id and the roster of team node t
tname_of(t) == OrGet(t, <<"name", "teamName">>, JStr(<<"-">>))
tid_of(t) == Strip(PyStr(OrGet(t, <<"id", "teamId">>, JStr(<<>>))))
roster_of(t) == OrGet(t, <<"teamPlayers", "players", "squad", "roster">>, JList(<<>>))

\* one pass of the loop body (lines 55-71) for team node t
TeamStep(acc, t) ==
    IF ~IsMap(t) THEN Raised
    ELSE LET tname == tname_of(t)
             tid == tid_of(t)
             roster == roster_of(t)
             acc1 == [acc EXCEPT
                        !.teams_index = Append(@, <<tid, tname>>),
                        !.players_by_team = StartRoster(@, tid)]
         IN  IF ~CanIterate(roster) THEN Raised
             ELSE RosterLoop(acc1, IterItems(roster), tid, tname)

RECURSIVE TeamsLoop(_, _)
TeamsLoop(acc, teams) ==
    IF acc.status = "raised" \/ teams = <<>> THEN acc
    ELSE TeamsLoop(TeamStep(acc, Head(teams)), Tail(teams))

EmptyIndex ==
    [status |-> "ok", owner_by_name |-> <<>>, players_by_team |-> <<>>,
     teams_index |-> <<>>, total_names |-> 0]

\* fetch_live_league (lines 47-72) on the decoded response
fetch_live_league(data) ==
    IF ~IsMap(data) THEN Raised
    ELSE LET league == IF "league" \in DOMAIN data.val THEN data.val["league"] ELSE data
         IN  IF ~IsMap(league) THEN Raised
             ELSE LET teams == IF "teams" \in DOMAIN league.val
                               THEN league.val["teams"] ELSE JList(<<>>)
                  IN  IF ~CanIterate(teams) THEN Raised
                      ELSE TeamsLoop(EmptyIndex, IterItems(teams))

\* players_by_team.get(tid), with the team-name fallback (lines 219-226)
RECURSIVE HintLookup(_, _, _)
HintLookup(index, teams_index, hint) ==
    IF teams_index = <<>> THEN <<>>
    ELSE IF Lower(Strip(PyStr(Head(teams_index)[2]))) = Lower(Strip(hint))
         THEN (IF Head(teams_index)[1] \in DOMAIN index.players_by_team
               THEN index.players_by_team[Head(teams_index)[1]] ELSE <<>>)
         ELSE HintLookup(index, Tail(teams_index), hint)

my_names(index, team_id, team_name_hint) ==
    LET tid == Strip(team_id)
        direct == IF tid \in DOMAIN index.players_by_team
                  THEN index.players_by_team[tid] ELSE <<>>
    IN  IF direct = <<>> /\ team_name_hint # <<>>
        THEN HintLookup(index, index.teams_index, team_name_hint)
        ELSE direct

---------------------------------------------------------------------------
(* Roster payloads *)

SeqsUpTo(S, n) == UNION {[1..k -> S] : k \in 0..n}

Txt_al == <<"a","l">>
Txt_Al == <<"A","l">>
Txt_Bo == <<"B","o">>
Txt_Cy == <<"C","y">>
Txt_Bob == <<"B","o","b">>
Txt_dash == <<"-">>

\* the field names one upstream schema uses
Schemas ==
    { [idKey |-> "id", nameKey |-> "name", rosterKey |-> "players",
       path |-> NamePaths[1], wrapped |-> FALSE],
      [idKey |-> "teamId", nameKey |-> "teamName", rosterKey |-> "teamPlayers",
       path |-> NamePaths[2], wrapped |-> TRUE],
      [idKey |-> "id", nameKey |-> "name", rosterKey |-> "squad",
       path |-> NamePaths[3], wrapped |-> FALSE],
      [idKey |-> "id", nameKey |-> "teamName", rosterKey |-> "roster",
       path |-> NamePaths[4], wrapped |-> TRUE] }

Field(k, v) == k :> v

\* a roster item carrying name value v under the schema's path
NamedItem(path, v) ==
    IF path.nested THEN JMap(Field(path.key, JMap(Field("name", v))))
    ELSE JMap(Field(path.key, v))

\* name values of roster items, and a roster item that is a bare string
ItemNames == {JStr(Txt_al), JStr(Txt_Bo), JStr(<<>>)}
BareItem == JStr(Txt_Bo)

ItemsOf(schema) == {NamedItem(schema.path, v) : v \in ItemNames} \cup {BareItem}

TeamIds == {JNull, JStr(<<"t">>), JStr(<<"t"," ">>)}
TeamNames == {JNull, JStr(Txt_Bob)}

\* a team node: a key is absent when its value is JNull or its roster empty
TeamNode(schema, id, name, items) ==
    JMap( (IF id = JNull THEN <<>> ELSE Field(schema.idKey, id))
          @@ (IF name = JNull THEN <<>> ELSE Field(schema.nameKey, name))
          @@ (IF items = <<>> THEN <<>> ELSE Field(schema.rosterKey, JList(items))) )

\* a team node that is not a mapping
BareTeam == JStr(Txt_Bob)

TeamNodes(schema) ==
    { TeamNode(schema, id, name, items) :
        id \in TeamIds, name \in TeamNames,
        items \in SeqsUpTo(ItemsOf(schema), MaxRoster) } \cup {BareTeam}

Payload(schema, teams) ==
    IF schema.wrapped THEN JMap(Field("league", JMap(Field("teams", JList(teams)))))
    ELSE JMap(Field("teams", JList(teams)))

PayloadsOf(schema) ==
    { Payload(schema, teams) : teams \in SeqsUpTo(TeamNodes(schema), MaxTeams) }

\* the team nodes of a payload of the families above
TeamsOf(data) ==
    IF "league" \in DOMAIN data.val THEN data.val["league"].val["teams"].val
    ELSE data.val["teams"].val

\* roster items of one schema that differ only in where the name sits
FlatSchema == CHOOSE schema \in Schemas : schema.path = NamePaths[1]

FlatItems ==
    { JMap(Field("name", JStr(Txt_al))),
      JMap(Field("name", JStr(Txt_Bo)) @@ Field("playerName", JStr(Txt_al))) }

FlatPayloads ==
    { Payload(FlatSchema, teams) :
        teams \in SeqsUpTo(
            { TeamNode(FlatSchema, id, JStr(Txt_Bob), items) :
                id \in {JNull, JStr(<<"t">>)},
                items \in SeqsUpTo(FlatItems, MaxRoster) },
            MaxTeams) }

\* the same item with its name moved from name to player.name
NestItem(p) ==
    IF "name" \in DOMAIN p.val
    THEN JMap( Field("player", JMap(Field("name", p.val["name"])))
               @@ [k \in (DOMAIN p.val) \ {"name"} |-> p.val[k]] )
    ELSE p

NestTeam(t) ==
    IF "players" \in DOMAIN t.val
    THEN JMap( Field("players",
                     JList([i \in 1..Len(t.val["players"].val) |->
                              NestItem(t.val["players"].val[i])]))
               @@ [k \in (DOMAIN t.val) \ {"players"} |-> t.val[k]] )
    ELSE t

\* a flat payload after the upstream schema moved every name under player
ToNested(data) ==
    Payload(FlatSchema, [i \in 1..Len(TeamsOf(data)) |-> NestTeam(TeamsOf(data)[i])])

---------------------------------------------------------------------------
(* The script, top to bottom *)

\* line 172
FetchLeague ==
    /\ pc = "start"
    /\ fetched' = fetch_live_league(payload)
    /\ pc' = IF fetched'.status = "raised" THEN "error" ELSE "fetched"
    /\ UNCHANGED <<payload, normvars, poolvars, rankvars>>

\* pandas cells: {} is NaN, {v} holds v
NaN == {}
IsNa(c) == c = {}
ValueOf(c) == CHOOSE v \in c : TRUE
FillNa(c, d) == IF c = {} THEN d ELSE ValueOf(c)

RECURSIVE Flatten(_)
Flatten(ss) == IF ss = <<>> THEN <<>> ELSE Head(ss) \o Flatten(Tail(ss))

\* a data frame gets the default RangeIndex
ResetIndex(rows) == [i \in 1..Len(rows) |-> [idx |-> i] @@ rows[i]]

\* lines 176-192: read_csv, Name_norm, FDR_next and FixtureEase
LoadRow(r) ==
    [Name |-> r.Name, ppg |-> r.ppg, FDR_next |-> r.FDR_next,
     Name_norm |-> normalize_name(r.Name),
     FixtureEase |-> IF IsNa(r.FDR_next) THEN NaN ELSE {6 - ValueOf(r.FDR_next)}]

LoadFrame(rows) == ResetIndex([i \in 1..Len(rows) |-> LoadRow(rows[i])])

\* line 199: the columns of fpl_sub, keyed by norm(web_name)
FplSub(f) ==
    [status |-> f.status, chance |-> f.chance, news |-> f.news,
     ict_index |-> f.ict_index, form |-> f.form]

FplNaN ==
    [status |-> NaN, chance |-> NaN, news |-> NaN, ict_index |-> NaN, form |-> NaN]

\* the rows a left merge emits for one left row: one per right row with the
\* same key, in the right frame's order, or one NaN-filled row when none has
MergeRow(r, fpl) ==
    LET key == norm(r.Name)
        hits == SelectSeq(fpl, LAMBDA f : norm(f.web_name) = key)
    IN  IF hits = <<>> THEN << [name_key |-> key] @@ FplNaN @@ r >>
        ELSE [j \in 1..Len(hits) |-> [name_key |-> key] @@ FplSub(hits[j]) @@ r]

\* lines 197-200: df_pool.merge(fpl_sub, on="name_key", how="left")
MergeFrame(pool, fpl) ==
    ResetIndex(Flatten([i \in 1..Len(pool) |-> MergeRow(pool[i], fpl)]))

IsSubstring(pat, s) ==
    \E i \in 1..(Len(s) - Len(pat) + 1) : SubSeq(s, i, i + Len(pat) - 1) = pat

\* the alternatives of the news pattern (line 207)
ReturningWords ==
    { <<"a","v","a","i","l","a","b","l","e">>, <<"r","e","t","u","r","n","e","d">>,
      <<"b","a","c","k">>, <<"f","i","t">> }

\* lines 203-210: Available_nextGW, Returning_flag and Owner
SignalRow(r, owner_by_name) ==
    [Available_nextGW |->
        /\ r.status \cap {"a", "d"} # {}
        /\ FillNa(r.chance, 100) >= 75,
     Returning_flag |->
        \E word \in ReturningWords : IsSubstring(word, Lower(FillNa(r.news, <<>>))),
     Owner |->
        IF r.Name_norm \in DOMAIN owner_by_name THEN owner_by_name[r.Name_norm]
        ELSE JStr(Txt_dash)] @@ r

SignalFrame(pool, owner_by_name) ==
    [i \in 1..Len(pool) |-> SignalRow(pool[i], owner_by_name)]

\* lines 232-234
FilterFrame(pool, mode) ==
    LET free == SelectSeq(pool, LAMBDA r : r.Owner = JStr(Txt_dash))
    IN  IF mode = "75%+ only"
        THEN SelectSeq(free, LAMBDA r : r.Available_nextGW \/ IsNa(r.chance))
        ELSE free

---------------------------------------------------------------------------
(* Composite score and ranking.  A score is the exact rational num/den in   *)
(* units of 0.05, the slider step.                                          *)

Metrics == {"ppg", "ict", "fix", "form"}

BonusSteps == 1    \* 0.05, the returning-from-injury bonus (line 246)
TopN == 25         \* head(25) (line 252)

\* the initial slider positions 1.0, 0.6, 0.8, 0.6 (lines 165-168)
DefaultWeights == [ppg |-> 20, ict |-> 12, fix |-> 16, form |-> 12]

\* slider positions drawn for the weights: 0.0, 1.0 and 2.0
SliderStops == {0, 20, 40}

\* every slider at 1.0 but at most one, or every slider at 0.0
WeightVectors ==
    { wv \in [Metrics -> SliderStops] :
        \/ \A m \in Metrics : wv[m] = 0
        \/ Cardinality({m \in Metrics : wv[m] # 20}) <= 1 }

MaxOf(S) == CHOOSE x \in S : \A y \in S : y <= x
MinOf(S) == CHOOSE x \in S : \A y \in S : x <= y

\* zero range yields 1.0 for every row
minmax_ones(col) ==
    LET s == [i \in 1..Len(col) |-> FillNa(col[i], 0)]
        vals == {s[i] : i \in 1..Len(s)}
    IN  IF col = <<>> THEN <<>>
        ELSE IF MaxOf(vals) = MinOf(vals) THEN [i \in 1..Len(s) |-> [num |-> 1, den |-> 1]]
        ELSE [i \in 1..Len(s) |->
                [num |-> s[i] - MinOf(vals), den |-> MaxOf(vals) - MinOf(vals)]]

\* the distance from the maximum instead of from the minimum
minmax_inverted(col) ==
    LET s == [i \in 1..Len(col) |-> FillNa(col[i], 0)]
        vals == {s[i] : i \in 1..Len(s)}
    IN  IF col = <<>> THEN <<>>
        ELSE IF MaxOf(vals) = MinOf(vals) THEN [i \in 1..Len(s) |-> [num |-> 0, den |-> 1]]
        ELSE [i \in 1..Len(s) |->
                [num |-> MaxOf(vals) - s[i], den |-> MaxOf(vals) - MinOf(vals)]]

\* minmax (lines 27-31) of a column of cells
minmax(col) ==
    LET s == [i \in 1..Len(col) |-> FillNa(col[i], 0)]
        vals == {s[i] : i \in 1..Len(s)}
    IN  IF col = <<>> THEN <<>>
        ELSE IF MaxOf(vals) = MinOf(vals) THEN [i \in 1..Len(s) |-> [num |-> 0, den |-> 1]]
        ELSE [i \in 1..Len(s) |->
                [num |-> s[i] - MinOf(vals), den |-> MaxOf(vals) - MinOf(vals)]]

\* the column each metric is normalised from (lines 237-240)
MetricCell(r, m) ==
    CASE m = "ppg" -> r.ppg
      [] m = "ict" -> r.ict_index
      [] m = "fix" -> {FillNa(r.FixtureEase, 0)}
      [] m = "form" -> r.form

Column(df, m) == [i \in 1..Len(df) |-> MetricCell(df[i], m)]

\* lines 241-247 for one row, over the common denominator of its four terms
ScoreOf(n, weights, flag) ==
    LET d == n["ppg"].den * n["ict"].den * n["fix"].den * n["form"].den
        term(m) == weights[m] * n[m].num * (d \div n[m].den)
    IN  [num |-> term("ppg") + term("ict") + term("fix") + term("form")
                 + BonusSteps * (IF flag THEN 1 ELSE 0) * d,
         den |-> d]

\* lines 237-247: the four normalised columns and Score
ScoreFrame(df, weights) ==
    LET cols == [m \in Metrics |-> minmax(Column(df, m))]
    IN  [i \in 1..Len(df) |->
            LET n == [m \in Metrics |-> cols[m][i]]
            IN  [norm_ppg |-> n["ppg"], norm_ict |-> n["ict"],
                 norm_fix |-> n["fix"], norm_form |-> n["form"],
                 Score |-> ScoreOf(n, weights, df[i].Returning_flag)] @@ df[i]]

ScoreGe(a, b) == a.num * b.den >= b.num * a.den
ScoreEq(a, b) == a.num * b.den = b.num * a.den

Perms(n) == {f \in [1..n -> 1..n] : \A i, j \in 1..n : i # j => f[i] # f[j]}

\* ties keep the order of the frame
sort_values_stable(df) ==
    { [i \in 1..Len(df) |-> df[p[i]]] :
        p \in { q \in Perms(Len(df)) :
                  \A i, j \in 1..Len(df) :
                     i < j => \/ ~ScoreGe(df[q[j]].Score, df[q[i]].Score)
                              \/ (ScoreEq(df[q[i]].Score, df[q[j]].Score) /\ q[i] < q[j]) } }

\* sort_values("Score", ascending=False) (line 252): the default kind is
\* quicksort, which promises no order among equal scores, so every
\* arrangement of the rows with non-increasing Score is a possible outcome
sort_values(df) ==
    { [i \in 1..Len(df) |-> df[p[i]]] :
        p \in { q \in Perms(Len(df)) :
                  \A i, j \in 1..Len(df) :
                     i < j => ScoreGe(df[q[i]].Score, df[q[j]].Score) } }

\* head(n)
head(rows, n) == SubSeq(rows, 1, IF Len(rows) < n THEN Len(rows) ELSE n)

\* line 175: the season-stats frame replaces the roster response
LoadPool ==
    /\ pc = "fetched"
    /\ df_pool' = LoadFrame(season)
    /\ payload' = NoPayload
    /\ pc' = "loaded"
    /\ UNCHANGED <<fetched, season, fpl_players, normvars, rankvars>>

\* lines 195-200
MergeFpl ==
    /\ pc = "loaded"
    /\ df_pool' = MergeFrame(df_pool, fpl_players)
    /\ pc' = "merged"
    /\ UNCHANGED <<fetchvars, season, fpl_players, normvars, rankvars>>

\* lines 203-210
Signals ==
    /\ pc = "merged"
    /\ df_pool' = SignalFrame(df_pool, fetched.owner_by_name)
    /\ pc' = "owned"
    /\ UNCHANGED <<fetchvars, season, fpl_players, normvars, rankvars>>

\* lines 232-234
Filter ==
    /\ pc = "owned"
    /\ df_avail' = FilterFrame(df_pool, min_avail)
    /\ pc' = "filtered"
    /\ UNCHANGED <<fetchvars, poolvars, normvars, df_top, w, min_avail>>

\* lines 237-247
Score ==
    /\ pc = "filtered"
    /\ df_avail' = ScoreFrame(df_avail, w)
    /\ pc' = "scored"
    /\ UNCHANGED <<fetchvars, poolvars, normvars, df_top, w, min_avail>>

\* line 252
Rank ==
    /\ pc = "scored"
    /\ df_top' \in {head(sorted, TopN) : sorted \in sort_values(df_avail)}
    /\ pc' = "ranked"
    /\ UNCHANGED <<fetchvars, poolvars, normvars, df_avail, w, min_avail>>

\* a weight slider moves and the script runs again on the same data
\* (lines 165-168, then 237-252)
SliderRerun ==
    /\ pc = "ranked"
    /\ \E m \in Metrics, v \in SliderStops :
          /\ v # w[m]
          /\ [w EXCEPT ![m] = v] \in WeightVectors
          /\ w' = [w EXCEPT ![m] = v]
    /\ df_avail' = ScoreFrame(df_avail, w')
    /\ df_top' \in {head(sorted, TopN) : sorted \in sort_values(df_avail')}
    /\ pc' = "ranked"
    /\ UNCHANGED <<fetchvars, poolvars, normvars, min_avail>>

---------------------------------------------------------------------------
(* The whole script on one roster payload, with fixed feeds *)

FixedSeason ==
    << [Name |-> Txt_Al, ppg |-> {2}, FDR_next |-> {2}],
       [Name |-> Txt_Bo, ppg |-> {1}, FDR_next |-> NaN],
       [Name |-> Txt_Cy, ppg |-> {1}, FDR_next |-> {4}] >>

FixedFpl ==
    << [web_name |-> Txt_Al, status |-> {"a"}, chance |-> NaN, news |-> {<<>>},
        ict_index |-> {3}, form |-> {1}],
       [web_name |-> Txt_Bo, status |-> {"d"}, chance |-> {75},
        news |-> {<<"B","a","c","k">>}, ict_index |-> {1}, form |-> {2}] >>

Init ==
    /\ pc = "start"
    /\ \E schema \in Schemas : payload \in PayloadsOf(schema)
    /\ fetched = NoFetch
    /\ season = FixedSeason /\ fpl_players = FixedFpl /\ df_pool = NoRows
    /\ df_avail = NoRows /\ df_top = NoRows
    /\ w = DefaultWeights
    /\ min_avail = "75%+ only"
    /\ NormIdle

Next == FetchLeague \/ LoadPool \/ MergeFpl \/ Signals \/ Filter \/ Score \/ Rank

Spec == Init /\ [][Next]_vars

---------------------------------------------------------------------------
(* The roster fetch before and after the upstream schema nests the names *)

\* the next run fetches the same rosters with every name under player.name
SchemaChurn ==
    /\ pc = "fetched"
    /\ payload # NoPayload
    /\ ToNested(payload) # payload
    /\ payload' = ToNested(payload)
    /\ fetched' = fetch_live_league(payload')
    /\ pc' = IF fetched'.status = "raised" THEN "error" ELSE "fetched"
    /\ UNCHANGED <<normvars, poolvars, rankvars>>

InitNested ==
    /\ pc = "start"
    /\ payload \in FlatPayloads
    /\ fetched = NoFetch
    /\ NormIdle /\ PoolIdle /\ RankIdle

NextNested == FetchLeague \/ SchemaChurn

SpecNested == InitNested /\ [][NextNested]_vars

---------------------------------------------------------------------------
(* The pool construction on varying feeds *)

\* the index the scenario payload of one team "Bob" holding "al" yields
FixedIndex ==
    fetch_live_league(
        Payload(FlatSchema,
                << TeamNode(FlatSchema, JStr(<<"t">>), JStr(Txt_Bob),
                            << JMap(Field("name", JStr(Txt_al))) >>) >>))

SeasonRows ==
    { [Name |-> n, ppg |-> {1}, FDR_next |-> d] : n \in {Txt_Al, Txt_Bo}, d \in {NaN, {2}} }

FplRows ==
    { [web_name |-> n, status |-> a.status, chance |-> a.chance, news |-> {<<>>},
       ict_index |-> {1}, form |-> {1}] :
        n \in {Txt_Al, Txt_al, Txt_Bo},
        a \in { [status |-> {"a"}, chance |-> NaN], [status |-> {"i"}, chance |-> {0}] } }

InitMerge ==
    /\ pc = "fetched"
    /\ payload = NoPayload
    /\ fetched = FixedIndex
    /\ season \in SeqsUpTo(SeasonRows, MaxStats)
    /\ fpl_players \in SeqsUpTo(FplRows, MaxFpl)
    /\ df_pool = NoRows
    /\ df_avail = NoRows /\ df_top = NoRows
    /\ w = DefaultWeights
    /\ min_avail \in {"All", "75%+ only"}
    /\ NormIdle

NextMerge == LoadPool \/ MergeFpl \/ Signals \/ Filter

SpecMerge == InitMerge /\ [][NextMerge]_vars

---------------------------------------------------------------------------
(* Scoring and ranking on varying candidates and weights *)

\* a filtered row with the columns the scoring reads
BaseCandidate ==
    [ppg |-> {1}, ict_index |-> {1}, FixtureEase |-> {1}, form |-> {1},
     Returning_flag |-> FALSE]

\* the base row and the rows that differ from it in one column
CandidateRows ==
    { BaseCandidate,
      [BaseCandidate EXCEPT !.ppg = {0}],
      [BaseCandidate EXCEPT !.ppg = {2}],
      [BaseCandidate EXCEPT !.ict_index = NaN],
      [BaseCandidate EXCEPT !.ict_index = {2}],
      [BaseCandidate EXCEPT !.FixtureEase = {2}],
      [BaseCandidate EXCEPT !.form = {2}],
      [BaseCandidate EXCEPT !.Returning_flag = TRUE] }

\* three candidates spread over the values 0, 1 and 2 of one metric
SpreadPools ==
    { <<a, b, c>> : a, b, c \in { BaseCandidate,
                                  [BaseCandidate EXCEPT !.ppg = {0}],
                                  [BaseCandidate EXCEPT !.ppg = {2}] } }

InitRank ==
    /\ pc = "filtered"
    /\ \E rows \in SeqsUpTo(CandidateRows, MaxPool) \cup SpreadPools :
          df_avail = ResetIndex(rows)
    /\ df_top = NoRows
    /\ w \in WeightVectors
    /\ min_avail = "All"
    /\ FetchIdle /\ PoolIdle /\ NormIdle

NextRank == Score \/ Rank \/ SliderRerun

SpecRank == InitRank /\ [][NextRank]_vars

---------------------------------------------------------------------------
(* Properties of the roster fetch and of the whole script *)

\* the raw names the inner loop takes from one team node
RECURSIVE NamesIn(_)
NamesIn(items) ==
    IF items = <<>> THEN <<>>
    ELSE LET r == extract_player_name(Head(items))
         IN  (IF Truthy(r.val) THEN <<r.val>> ELSE <<>>) \o NamesIn(Tail(items))

\* the names of every roster entry whose team node resolved to tid, in
\* payload order
EntriesOf(teams, tid) ==
    Flatten([i \in 1..Len(teams) |->
                IF tid_of(teams[i]) = tid THEN NamesIn(IterItems(roster_of(teams[i])))
                ELSE <<>>])

\* C1 as stated: once the index is built, players_by_team[tid] is exactly the
\* list of names of the roster entries whose team node resolved to tid, also
\* for an id shared by several team nodes; an id no team resolved to yields
\* an empty roster
C1_RosterOf ==
    pc = "fetched" =>
        /\ \A tid \in DOMAIN fetched.players_by_team :
              fetched.players_by_team[tid] = EntriesOf(TeamsOf(payload), tid)
        /\ my_names(fetched, <<"z">>, <<>>) = <<>>

\* C3 as stated: building the index never raises on a payload that is a
\* tree of mappings and sequences, and every well-formed roster item of
\* every team is counted
C3_NeverRaises ==
    /\ pc # "error"
    /\ pc = "fetched" =>
          fetched.total_names =
              Len(Flatten([i \in 1..Len(TeamsOf(payload)) |->
                              NamesIn(IterItems(roster_of(TeamsOf(payload)[i])))]))

\* C10 as stated: no row of the ranking carries the normalised name of a
\* player extracted from some team's roster
C10_RankedUnowned ==
    pc = "ranked" =>
        \A i \in 1..Len(df_top) : df_top[i].Name_norm \notin DOMAIN fetched.owner_by_name

\* C6: when the same rosters arrive with every name moved from name to
\* player.name, the fetch returns the same owner_by_name, players_by_team,
\* teams_index and total_names as before
C6_NestedSameIndex ==
    [][(pc = "fetched" /\ payload' # payload) => fetched' = fetched]_vars

C6_Witness ==
    /\ pc = "fetched"
    /\ payload # NoPayload
    /\ payload = ToNested(payload)
    /\ fetched.total_names >= 2
    /\ \E t \in DOMAIN fetched.players_by_team :
          fetched.players_by_team[t] = <<JStr(Txt_Bo), JStr(Txt_al)>>

---------------------------------------------------------------------------
(* Properties of the merge *)

\* C5 as stated: after the merge the pool holds exactly one row per
\* season-stats row, in order, whatever keys the live-metrics rows share
C5_OneRowPerPlayer ==
    pc \in {"merged", "owned"} =>
        /\ Len(df_pool) = Len(season)
        /\ \A i \in 1..Len(df_pool) : df_pool[i].Name = season[i].Name

---------------------------------------------------------------------------
(* Properties of the scoring and the ranking *)

IdenticalMetrics(df) ==
    \A i, j \in 1..Len(df) : \A m \in Metrics :
        FillNa(MetricCell(df[i], m), 0) = FillNa(MetricCell(df[j], m), 0)

NormsOf(r) == {r.norm_ppg, r.norm_ict, r.norm_fix, r.norm_form}

\* C7: when all candidates of the filtered pool agree on each of the four
\* metrics, every normalised metric of every candidate is 0 and its Score
\* is its bonus term, 0.05 with the returning flag and 0 without, whatever
\* the weights
C7_ZeroRange ==
    (pc \in {"scored", "ranked"} /\ IdenticalMetrics(df_avail)) =>
        \A i \in 1..Len(df_avail) :
            /\ \A n \in NormsOf(df_avail[i]) : n.den # 0 /\ n.num = 0
            /\ df_avail[i].Score.den # 0
            /\ ScoreEq(df_avail[i].Score,
                       [num |-> IF df_avail[i].Returning_flag THEN BonusSteps ELSE 0,
                        den |-> 1])

C7_Witness ==
    /\ pc = "scored"
    /\ Len(df_avail) = 2
    /\ IdenticalMetrics(df_avail)
    /\ \A m \in Metrics : w[m] = 20
    /\ df_avail[1].Returning_flag /\ ~df_avail[2].Returning_flag
    /\ df_avail[1].Score.num = BonusSteps * df_avail[1].Score.den
    /\ df_avail[2].Score.num = 0

\* row a has the higher value on metric m and equals row b on every other
\* scoring input
HigherOnly(a, b, m) ==
    /\ FillNa(MetricCell(a, m), 0) > FillNa(MetricCell(b, m), 0)
    /\ \A k \in Metrics \ {m} : FillNa(MetricCell(a, k), 0) = FillNa(MetricCell(b, k), 0)
    /\ a.Returning_flag = b.Returning_flag

PosIn(top, id) == CHOOSE i \in 1..Len(top) : top[i].idx = id

\* Score(a) - Score(b) under the second scoring is at least that under the first
GapGe(a2, b2, a1, b1) ==
    (a2.num * b2.den - b2.num * a2.den) * (a1.den * b1.den)
        >= (a1.num * b1.den - b1.num * a1.den) * (a2.den * b2.den)

\* C8: when one slider is raised and the others stay, a candidate A that has
\* the higher value on that metric than an otherwise equal candidate B and
\* was ranked at or above B is still ranked at or above B, and
\* Score(A) - Score(B) does not shrink
C8_RaiseKeepsOrder ==
    [][\A m \in Metrics :
          (/\ pc = "ranked" /\ pc' = "ranked"
           /\ w'[m] > w[m]
           /\ \A k \in Metrics \ {m} : w'[k] = w[k])
          => \A i, j \in 1..Len(df_avail) :
                HigherOnly(df_avail[i], df_avail[j], m) =>
                   /\ GapGe(df_avail'[i].Score, df_avail'[j].Score,
                            df_avail[i].Score, df_avail[j].Score)
                   /\ PosIn(df_top, i) < PosIn(df_top, j)
                         => PosIn(df_top', i) < PosIn(df_top', j)]_vars

C8_Witness ==
    /\ pc = "ranked"
    /\ Len(df_avail) = 3
    /\ w = [ppg |-> 20, ict |-> 20, fix |-> 20, form |-> 20]
    /\ HigherOnly(df_avail[3], df_avail[1], "ppg")
    /\ HigherOnly(df_avail[1], df_avail[2], "ppg")
    /\ df_top[1].idx = 3 /\ df_top[2].idx = 1 /\ df_top[3].idx = 2
    /\ df_top[2].norm_ppg = [num |-> 1, den |-> 2]

\* C4 as stated: the ranking is the pool sorted by Score, descending, rows
\* of equal Score in pool order, cut to the first 25
C4_StableTies ==
    pc = "ranked" => df_top \in {head(sorted, TopN) : sorted \in sort_values_stable(df_avail)}

===========================================================================
